---- MODULE Spec2Model ----
(***************************************************************************)
(* Model of tools/setup-irc.mjs: the tool that initializes (or dismisses)  *)
(* the IRC channels of breakout sessions.  main() filters and validates    *)
(* the sessions of the project, groups them per IRC channel, and then      *)
(* either prints the IRC commands (dry run) or drives an irc.Client whose  *)
(* 'registered', 'join', 'error' and 'part' events run the listeners.      *)
(*                                                                         *)
(* Strings of the program are TLA+ strings; template literals are built    *)
(* with \o.  The irc.Client is an event emitter: once it is registered it  *)
(* may deliver any join, part or error event, in any order.                *)
(***************************************************************************)
EXTENDS Integers, Sequences, FiniteSets, TLC

VARIABLES
    pc,            \* position of the run (see the actions)
    number,        \* <<>> for undefined, <<n>> for the session number
    slot,          \* Undefined, or the slot start time
    onlyCommands,  \* dry run
    dismissBots,   \* dismiss mode
    project,       \* result of fetchProject: sessions, slots, rooms
    validation,    \* result of validateSession, per session number
    sessions,      \* the `sessions` variable of main
    channels,      \* the `channels` object, as a sequence in key order
    bot,           \* Undefined, or "client" once irc.Client is created
    console,       \* lines printed by console.log (commands and delimiters)
    log,           \* calls made on the irc.Client, in order
    idx,           \* position of the dry-run loop
    last,          \* the event the driver delivered last, and where log stood
    nEvents,       \* number of events delivered so far
    resolveCalls,  \* number of calls of promiseResolve
    error          \* message of the error thrown, "" if none

vars == <<pc, number, slot, onlyCommands, dismissBots, project, validation,
          sessions, channels, bot, console, log, idx, last, nEvents,
          resolveCalls, error>>

-----------------------------------------------------------------------------
(* Bounds *)

MaxEvents == 3

-----------------------------------------------------------------------------
(* JavaScript values *)

Undefined == "undefined"

botName == "tpac-breakout-bot"

Falsy(v) == v = Undefined \/ v = ""

Truthy(v) == ~Falsy(v)

\* !number, for number undefined (<<>>) or a parsed integer (<<n>>)
NoNumber(n) == n = <<>> \/ n = <<0>>

StartsWith(s, prefix) ==
    /\ Len(prefix) <= Len(s)
    /\ SubSeq(s, 1, Len(prefix)) = prefix

\* Array.prototype.filter
RECURSIVE FilterSeq(_, _)
FilterSeq(seq, keep) ==
    IF seq = <<>> THEN <<>>
    ELSE (IF keep[1] THEN <<Head(seq)>> ELSE <<>>)
         \o FilterSeq(Tail(seq), Tail(keep))

\* Array.prototype.sort with comparator (a, b) => key(a) - key(b): stable
SortByKey(seq, keys) ==
    LET n == Len(seq)
        rank(k) == 1 + Cardinality({j \in 1..n :
                        keys[j] < keys[k] \/ (keys[j] = keys[k] /\ j < k)})
    IN [r \in 1..n |-> seq[CHOOSE k \in 1..n : rank(k) = r]]

\* Array.prototype.findIndex, 0-based, -1 when nothing is found; tests[k]
\* is the result of the callback on the k-th element
FindIndex(tests) ==
    IF \E k \in 1..Len(tests) : tests[k]
    THEN (CHOOSE k \in 1..Len(tests) :
              tests[k] /\ \A j \in 1..(k - 1) : ~tests[j]) - 1
    ELSE -1

\* Array.prototype.join
RECURSIVE JoinStrings(_, _)
JoinStrings(seq, sep) ==
    IF seq = <<>> THEN ""
    ELSE IF Len(seq) = 1 THEN seq[1]
    ELSE seq[1] \o sep \o JoinStrings(Tail(seq), sep)

-----------------------------------------------------------------------------
(* Data of the collaborators: ./lib/todostrings.mjs, ./lib/project.mjs,    *)
(* ./lib/validate.mjs                                                      *)

todoStrings == {"@@", "TBD", "TODO"}

Session(n, title, slotName, room, shortname, attendance, agenda, slides) ==
    [number |-> n, title |-> title, slot |-> slotName, room |-> room,
     repository |-> "w3c/breakouts",
     chairs |-> <<[name |-> "Ann"], [name |-> "Bob"]>>,
     description |-> [shortname |-> shortname, attendance |-> attendance,
                      materials |-> [agenda |-> agenda, slides |-> slides]],
     done |-> FALSE]

Slots == <<[name |-> "9:30 - 10:30"], [name |-> "11:00 - 12:00"]>>

Rooms == <<[name |-> "R1", label |-> "Room 1"]>>

ProjectSessions ==
    << Session(3, "Beta", "9:30 - 10:30", "Elsewhere", "#beta", "public",
               "https://example.org/agenda", "https://example.org/slides"),
       Session(1, "Alpha later", "11:00 - 12:00", "R1", "#alpha", "restricted",
               "@@", Undefined),
       Session(2, "Alpha", "9:30 - 10:30", "R1", "#alpha", "public",
               Undefined, "TBD"),
       Session(4, "Gamma", Undefined, "R1", "#gamma", "public",
               Undefined, Undefined) >>

Project == [sessions |-> ProjectSessions, slots |-> Slots, rooms |-> Rooms]

SessionNumbers == {ProjectSessions[k].number : k \in 1..Len(ProjectSessions)}

NoErrors == [n \in SessionNumbers |-> <<>>]

SomeErrors ==
    [n \in SessionNumbers |->
        IF n = 2 THEN <<[severity |-> "warning"], [severity |-> "error"]>>
        ELSE IF n = 3 THEN <<[severity |-> "warning"]>>
        ELSE <<>>]

-----------------------------------------------------------------------------
(* Helpers of main *)

getChannel(session) == session.description.shortname

\* lines 49-52 without the test of s.slot (line 49)
SelectedSessions_Unassigned ==
    LET all == project.sessions
        keep == [k \in 1..Len(all) |->
                    /\ (NoNumber(number) \/ all[k].number = number[1])
                    /\ (Falsy(slot) \/ Falsy(all[k].slot)
                        \/ StartsWith(all[k].slot, slot))]
        kept == FilterSeq(all, keep)
    IN SortByKey(kept, [k \in 1..Len(kept) |-> kept[k].number])

\* lines 49-52: the sessions of the run, sorted by number
SelectedSessions ==
    LET all == project.sessions
        keep == [k \in 1..Len(all) |->
                    /\ Truthy(all[k].slot)
                    /\ (NoNumber(number) \/ all[k].number = number[1])
                    /\ (Falsy(slot) \/ StartsWith(all[k].slot, slot))]
        kept == FilterSeq(all, keep)
    IN SortByKey(kept, [k \in 1..Len(kept) |-> kept[k].number])

\* lines 68-72 without the filter on the severity (line 69)
HasErrors_AnySeverity(session) ==
    Len(validation[session.number]) > 0

\* lines 67-75: the sessions without validation error
HasErrors(session) ==
    \E k \in 1..Len(validation[session.number]) :
        validation[session.number][k].severity = "error"

ValidSessions ==
    FilterSeq(sessions, [k \in 1..Len(sessions) |-> ~HasErrors(sessions[k])])

\* lines 95-97: position of a session's slot in project.slots
SlotIndex(session) ==
    FindIndex([k \in 1..Len(project.slots) |->
                  project.slots[k].name = session.slot])

\* lines 89-98 without the sort of lines 94-98
PushSession_NoSort(chans, session) ==
    LET channel == getChannel(session)
        at == FindIndex([k \in 1..Len(chans) |-> chans[k].name = channel]) + 1
        withKey == IF at = 0
                   THEN Append(chans, [name |-> channel, sessions |-> <<>>])
                   ELSE chans
        pos == IF at = 0 THEN Len(withKey) ELSE at
    IN [withKey EXCEPT ![pos].sessions = Append(withKey[pos].sessions, session)]

\* lines 89-98: push a session on its channel's list and sort the list
PushSession(chans, session) ==
    LET channel == getChannel(session)
        at == FindIndex([k \in 1..Len(chans) |-> chans[k].name = channel]) + 1
        withKey == IF at = 0
                   THEN Append(chans, [name |-> channel, sessions |-> <<>>])
                   ELSE chans
        pos == IF at = 0 THEN Len(withKey) ELSE at
        pushed == Append(withKey[pos].sessions, session)
        sorted == SortByKey(pushed,
                            [k \in 1..Len(pushed) |-> SlotIndex(pushed[k])])
    IN [withKey EXCEPT ![pos].sessions = sorted]

\* lines 87-99
RECURSIVE GroupSessions(_, _)
GroupSessions(chans, rest) ==
    IF rest = <<>> THEN chans
    ELSE GroupSessions(PushSession(chans, Head(rest)), Tail(rest))

\* line 100
Representatives(chans) == [k \in 1..Len(chans) |-> chans[k].sessions[1]]

-----------------------------------------------------------------------------
(* What a helper does: the lines it prints with console.log and the calls  *)
(* it makes on bot, in the order of the code                               *)

Call(op, args) == [op |-> op, args |-> args]

NoCall == Call("", <<>>)

ConsoleLog(line) == [kind |-> "print", line |-> line, call |-> NoCall]

BotCall(op, args) == [kind |-> "call", line |-> "", call |-> Call(op, args)]

\* the lines printed, and the calls made, by a sequence of effects
Lines(out) ==
    LET printed == SelectSeq(out, LAMBDA e : e.kind = "print")
    IN [k \in 1..Len(printed) |-> printed[k].line]

Calls(out) ==
    LET called == SelectSeq(out, LAMBDA e : e.kind = "call")
    IN [k \in 1..Len(called) |-> called[k].call]

\* lines 130-131 and 151-152
RoomLabel(session) ==
    LET at == FindIndex([k \in 1..Len(project.rooms) |->
                            project.rooms[k].name = session.room]) + 1
    IN IF at > 0 THEN "- " \o project.rooms[at].label \o " " ELSE ""

\* joinChannel without the dry-run test of line 115
joinChannel_Always(session) ==
    <<ConsoleLog("/join " \o getChannel(session)),
      BotCall("join", <<getChannel(session)>>)>>

\* lines 112-118
joinChannel(session) ==
    LET channel == getChannel(session)
    IN <<ConsoleLog("/join " \o channel)>>
       \o (IF ~onlyCommands THEN <<BotCall("join", <<channel>>)>> ELSE <<>>)

\* lines 120-126
inviteBot(session, name) ==
    LET channel == getChannel(session)
    IN <<ConsoleLog("/invite " \o name \o " " \o channel)>>
       \o (IF ~onlyCommands
           THEN <<BotCall("send", <<"INVITE", name, channel>>)>> ELSE <<>>)

\* lines 128-137
setTopic(session) ==
    LET channel == getChannel(session)
        topic == "TPAC breakout: " \o session.title \o " "
                 \o RoomLabel(session) \o "- " \o session.slot
    IN <<ConsoleLog("/topic " \o channel \o " " \o topic)>>
       \o (IF ~onlyCommands
           THEN <<BotCall("send", <<"TOPIC", channel, topic>>)>> ELSE <<>>)

\* lines 139-144
say(channel, msg) ==
    <<ConsoleLog("/msg " \o channel \o " " \o msg)>>
    \o (IF ~onlyCommands THEN <<BotCall("say", <<channel, msg>>)>> ELSE <<>>)

\* lines 158-160 and 190-192
partChannel(channel) ==
    IF bot # Undefined THEN <<BotCall("part", <<channel>>)>> ELSE <<>>

\* line 147: sessions.find(s => channel === getChannel(s)), 0 when not found
FindSession(channel) ==
    FindIndex([k \in 1..Len(sessions) |->
                  channel = getChannel(sessions[k])]) + 1

\* lines 154-160
DismissCommands(channel) ==
    say(channel, "RRSAgent, draft minutes")
    \o say(channel, "RRSAgent, bye")
    \o say(channel, "Zakim, bye")
    \o partChannel(channel)

\* the two invitations of lines 164-165 in the other order
SetupCommands_LoggingFirst(session) ==
    setTopic(session)
    \o inviteBot(session, "RRSAgent")
    \o inviteBot(session, "Zakim")

\* lines 163-165
SetupCommands(session) ==
    setTopic(session)
    \o inviteBot(session, "Zakim")
    \o inviteBot(session, "RRSAgent")

\* lines 173-179 without the test of todoStrings (line 174)
AgendaCommand_Verbatim(channel, session) ==
    IF Truthy(session.description.materials.agenda)
    THEN say(channel, "Agenda: " \o session.description.materials.agenda)
    ELSE say(channel, "Agenda: https://github.com/" \o session.repository
                      \o "/issues/" \o ToString(session.number))

\* lines 173-179
AgendaCommand(channel, session) ==
    IF /\ Truthy(session.description.materials.agenda)
       /\ session.description.materials.agenda \notin todoStrings
    THEN say(channel, "Agenda: " \o session.description.materials.agenda)
    ELSE say(channel, "Agenda: https://github.com/" \o session.repository
                      \o "/issues/" \o ToString(session.number))

\* lines 180-183 without the test of todoStrings (line 181)
SlidesetCommand_Verbatim(channel, session) ==
    IF Truthy(session.description.materials.slides)
    THEN say(channel, "Slideset: " \o session.description.materials.slides)
    ELSE <<>>

\* lines 180-183
SlidesetCommand(channel, session) ==
    IF /\ Truthy(session.description.materials.slides)
       /\ session.description.materials.slides \notin todoStrings
    THEN say(channel, "Slideset: " \o session.description.materials.slides)
    ELSE <<>>

\* lines 169-192
RRSAgentCommands(channel, session) ==
    say(channel, "RRSAgent, do not leave")
    \o say(channel, "RRSAgent, make logs " \o
           (IF session.description.attendance = "restricted"
            THEN "member" ELSE "public"))
    \o say(channel, "Meeting: " \o session.title)
    \o say(channel, "Chair: " \o
           JoinStrings([k \in 1..Len(session.chairs) |->
                           session.chairs[k].name], ", "))
    \o AgendaCommand(channel, session)
    \o SlidesetCommand(channel, session)
    \o say(channel, "clear agenda")
    \o say(channel, "agenda+ Pick a scribe")
    \o say(channel, "agenda+ Reminders: code of conduct, health policies, recorded session policy")
    \o say(channel, "agenda+ Goal of this session")
    \o say(channel, "agenda+ Discussion")
    \o say(channel, "agenda+ Next steps / where discussion continues")
    \o partChannel(channel)

\* sendChannelBotCommands without the test of line 154
sendChannelBotCommands_NoDismiss(channel, nick) ==
    LET at == FindSession(channel)
    IN IF at = 0 THEN <<>>
       ELSE IF nick = botName THEN SetupCommands(sessions[at])
       ELSE IF nick = "RRSAgent" THEN RRSAgentCommands(channel, sessions[at])
       ELSE <<>>

\* sendChannelBotCommands without the test of the nick at line 168
sendChannelBotCommands_AnyNick(channel, nick) ==
    LET at == FindSession(channel)
    IN IF at = 0 THEN <<>>
       ELSE IF nick = botName
            THEN (IF dismissBots THEN DismissCommands(channel)
                  ELSE SetupCommands(sessions[at]))
       ELSE RRSAgentCommands(channel, sessions[at])

\* lines 146-197
sendChannelBotCommands(channel, nick) ==
    LET at == FindSession(channel)
    IN IF at = 0 THEN <<>>
       ELSE IF nick = botName
            THEN (IF dismissBots THEN DismissCommands(channel)
                  ELSE SetupCommands(sessions[at]))
       ELSE IF nick = "RRSAgent" THEN RRSAgentCommands(channel, sessions[at])
       ELSE <<>>

-----------------------------------------------------------------------------
(* The listeners registered on the irc.Client *)

\* what the driver passes to the 'error' listener
ErrorMessage(command, args) == [command |-> command, args |-> args]

NoError == ErrorMessage("", <<>>)

\* lines 240-242
JoinListener(channel, nick) ==
    [out |-> sendChannelBotCommands(channel, nick), thrown |-> FALSE]

\* the error listener reading the first and second arguments of the reply
ErrorListener_FirstArgs(err) ==
    IF err.command = "err_useronchannel"
    THEN [out |-> sendChannelBotCommands(err.args[2], err.args[1]),
          thrown |-> FALSE]
    ELSE [out |-> <<>>, thrown |-> TRUE]

\* the error listener without the throw of line 237
ErrorListener_Swallow(err) ==
    IF err.command = "err_useronchannel"
    THEN [out |-> sendChannelBotCommands(err.args[3], err.args[2]),
          thrown |-> FALSE]
    ELSE [out |-> <<>>, thrown |-> FALSE]

\* lines 229-238: err.args[1] and err.args[2] are the second and third
\* arguments of the reply
ErrorListener(err) ==
    IF err.command = "err_useronchannel"
    THEN LET nick == err.args[2]
             channel == err.args[3]
         IN [out |-> sendChannelBotCommands(channel, nick), thrown |-> FALSE]
    ELSE [out |-> <<>>, thrown |-> TRUE]

\* line 254 with some in place of every
EveryDone_Some(list) == \E k \in 1..Len(list) : list[k].done

\* line 254
EveryDone(list) == \A k \in 1..Len(list) : list[k].done

\* the part listener without the test of line 245
PartListener_AnyNick(channel, nick) ==
    LET at == FindSession(channel)
        marked == [sessions EXCEPT ![at].done = TRUE]
    IN IF at = 0
       THEN [sessions |-> sessions, out |-> <<>>]
       ELSE [sessions |-> marked,
             out |-> <<ConsoleLog("-----")>>
                     \o (IF \A k \in 1..Len(marked) : marked[k].done
                         THEN <<BotCall("disconnect", <<>>)>> ELSE <<>>)]

\* lines 244-257
PartListener(channel, nick) ==
    LET at == FindSession(channel)
        marked == [sessions EXCEPT ![at].done = TRUE]
    IN IF nick # botName \/ at = 0
       THEN [sessions |-> sessions, out |-> <<>>]
       ELSE [sessions |-> marked,
             out |-> <<ConsoleLog("-----")>>
                     \o (IF EveryDone(marked)
                         THEN <<BotCall("disconnect", <<>>)>> ELSE <<>>)]

\* lines 201-203 and 218-220
SessionHeader(session) ==
    <<ConsoleLog(""), ConsoleLog("session " \o ToString(session.number)), ConsoleLog("-----")>>

\* lines 217-222
RECURSIVE JoinAll(_)
JoinAll(list) ==
    IF list = <<>> THEN <<>>
    ELSE SessionHeader(Head(list)) \o joinChannel(Head(list))
         \o JoinAll(Tail(list))

\* the dry-run loop body without the test of line 206
DryRunCommands_AlwaysLogging(session) ==
    SessionHeader(session)
    \o joinChannel(session)
    \o sendChannelBotCommands(getChannel(session), botName)
    \o sendChannelBotCommands(getChannel(session), "RRSAgent")
    \o <<ConsoleLog("-----")>>

\* lines 201-209
DryRunCommands(session) ==
    SessionHeader(session)
    \o joinChannel(session)
    \o sendChannelBotCommands(getChannel(session), botName)
    \o (IF ~dismissBots
        THEN sendChannelBotCommands(getChannel(session), "RRSAgent")
        ELSE <<>>)
    \o <<ConsoleLog("-----")>>

-----------------------------------------------------------------------------
(* The events the driver may deliver *)

Nicks == {botName, "RRSAgent", "Zakim", "guest"}

Channels == {"#alpha", "#beta", "#other"}

UserOnChannel(nick, channel) ==
    ErrorMessage("err_useronchannel",
                 <<botName, nick, channel, "is already on channel">>)

OtherErrors ==
    { ErrorMessage("err_chanoprivsneeded",
                   <<botName, "#alpha", "You're not channel operator">>),
      ErrorMessage("err_nosuchnick",
                   <<botName, "Zakim", "No such nick/channel">>) }

Errors == {UserOnChannel(n, c) : n \in Nicks, c \in Channels} \cup OtherErrors

Event(type, channel, nick, err) ==
    [type |-> type, channel |-> channel, nick |-> nick, err |-> err,
     at |-> Len(log), conAt |-> Len(console)]

NoEvent ==
    [type |-> "none", channel |-> "", nick |-> "", err |-> NoError,
     at |-> 0, conAt |-> 0]

Disconnects == Len(SelectSeq(log, LAMBDA c : c.op = "disconnect"))

-----------------------------------------------------------------------------
(* The run *)

PROJECT_OWNER == "w3c"

PROJECT_NUMBER == "57"

NumberArgs == {<<>>, <<2>>, <<4>>}

SlotArgs == {Undefined, "9:30", "14:00"}

Init ==
    /\ pc = "start"
    /\ number \in NumberArgs
    /\ slot \in SlotArgs
    /\ onlyCommands \in BOOLEAN
    /\ dismissBots \in BOOLEAN
    /\ project = Project
    /\ validation \in {NoErrors, SomeErrors}
    /\ sessions = <<>>
    /\ channels = <<>>
    /\ bot = Undefined
    /\ console = <<>>
    /\ log = <<>>
    /\ idx = 0
    /\ last = NoEvent
    /\ nEvents = 0
    /\ resolveCalls = 0
    /\ error = ""

\* lines 286-289 after a throw in main
Throw(msg) ==
    /\ pc' = "failed"
    /\ error' = msg
    /\ console' = console \o <<"Something went wrong: " \o msg>>

\* lines 49-66
FilterSessions ==
    /\ pc = "start"
    /\ sessions' = SelectedSessions
    /\ IF ~NoNumber(number) /\ Len(sessions') = 0
       THEN Throw("Session " \o ToString(number[1]) \o " not found in project "
                  \o PROJECT_OWNER \o "/" \o PROJECT_NUMBER
                  \o " or not assigned to requested slot")
       ELSE IF ~NoNumber(number) /\ Falsy(sessions'[1].slot)
       THEN Throw("Session " \o ToString(number[1])
                  \o " not assigned to a slot in project "
                  \o PROJECT_OWNER \o "/" \o PROJECT_NUMBER)
       ELSE pc' = "filtered" /\ UNCHANGED <<error, console>>
    /\ UNCHANGED <<number, slot, onlyCommands, dismissBots, project, validation,
                   channels, bot, log, idx, last, nEvents, resolveCalls>>

\* lines 67-84
ValidateSessions ==
    /\ pc = "filtered"
    /\ sessions' = ValidSessions
    /\ IF ~NoNumber(number) /\ Len(sessions') = 0
       THEN Throw("Session " \o ToString(number[1])
                  \o " contains errors that need fixing")
       ELSE pc' = "validated" /\ UNCHANGED <<error, console>>
    /\ UNCHANGED <<number, slot, onlyCommands, dismissBots, project, validation,
                   channels, bot, log, idx, last, nEvents, resolveCalls>>

\* lines 86-102
ComputeChannels ==
    /\ pc = "validated"
    /\ channels' = GroupSessions(<<>>, sessions)
    /\ sessions' = Representatives(channels')
    /\ pc' = "computed"
    /\ UNCHANGED <<number, slot, onlyCommands, dismissBots, project, validation,
                   bot, console, log, idx, last, nEvents, resolveCalls, error>>

\* lines 106-110, and for a live run lines 214-260: the client is created,
\* the listeners are registered and main returns its promise
Connect ==
    /\ pc = "computed"
    /\ bot' = IF onlyCommands THEN Undefined ELSE "client"
    /\ pc' = IF onlyCommands THEN "dryrun" ELSE "connecting"
    /\ idx' = 1
    /\ UNCHANGED <<number, slot, onlyCommands, dismissBots, project, validation,
                   sessions, channels, console, log, last, nEvents,
                   resolveCalls, error>>

\* lines 200-210: one turn of the loop
DryRunSession ==
    /\ pc = "dryrun"
    /\ idx <= Len(sessions)
    /\ LET out == DryRunCommands(sessions[idx])
       IN /\ console' = console \o Lines(out)
          /\ log' = log \o Calls(out)
    /\ idx' = idx + 1
    /\ UNCHANGED <<pc, number, slot, onlyCommands, dismissBots, project,
                   validation, sessions, channels, bot, last, nEvents,
                   resolveCalls, error>>

\* line 211
DryRunReturn ==
    /\ pc = "dryrun"
    /\ idx > Len(sessions)
    /\ pc' = "settled"
    /\ UNCHANGED <<number, slot, onlyCommands, dismissBots, project, validation,
                   sessions, channels, bot, console, log, idx, last, nEvents,
                   resolveCalls, error>>

\* lines 214-223
Registered ==
    /\ pc = "connecting"
    /\ LET out == JoinAll(sessions)
       IN /\ console' = console \o Lines(out)
          /\ log' = log \o Calls(out)
    /\ pc' = "running"
    /\ last' = Event("registered", "", "", NoError)
    /\ UNCHANGED <<number, slot, onlyCommands, dismissBots, project, validation,
                   sessions, channels, bot, idx, nEvents, resolveCalls, error>>

Listening == pc \in {"running", "disconnecting"} /\ nEvents < MaxEvents

\* lines 240-242: the listener runs on the event
OnJoin(channel, nick) ==
    /\ LET r == JoinListener(channel, nick)
       IN /\ console' = console \o Lines(r.out)
          /\ log' = log \o Calls(r.out)
    /\ last' = Event("join", channel, nick, NoError)
    /\ nEvents' = nEvents + 1
    /\ UNCHANGED <<pc, number, slot, onlyCommands, dismissBots, project,
                   validation, sessions, channels, bot, idx, resolveCalls,
                   error>>

\* the client emits 'join'
JoinEvent(channel, nick) == Listening /\ OnJoin(channel, nick)

\* lines 229-238: a throw in the listener ends the process
OnError(err) ==
    /\ LET r == ErrorListener(err)
       IN /\ console' = console \o Lines(r.out)
          /\ log' = log \o Calls(r.out)
          /\ pc' = IF r.thrown THEN "failed" ELSE pc
          /\ error' = IF r.thrown THEN err.command ELSE error
    /\ last' = Event("error", "", "", err)
    /\ nEvents' = nEvents + 1
    /\ UNCHANGED <<number, slot, onlyCommands, dismissBots, project, validation,
                   sessions, channels, bot, idx, resolveCalls>>

\* the client emits 'error'
ErrorEvent(err) == Listening /\ OnError(err)

\* lines 244-257
OnPart(channel, nick) ==
    /\ LET r == PartListener(channel, nick)
       IN /\ sessions' = r.sessions
          /\ console' = console \o Lines(r.out)
          /\ log' = log \o Calls(r.out)
          /\ pc' = IF Calls(r.out) # <<>> THEN "disconnecting" ELSE pc
    /\ last' = Event("part", channel, nick, NoError)
    /\ nEvents' = nEvents + 1
    /\ UNCHANGED <<number, slot, onlyCommands, dismissBots, project, validation,
                   channels, bot, idx, resolveCalls, error>>

\* the client emits 'part'
PartEvent(channel, nick) == Listening /\ OnPart(channel, nick)

\* line 255: the connection ends and every callback given to disconnect runs
ConnectionEnd ==
    /\ pc = "disconnecting"
    /\ resolveCalls' = resolveCalls + Disconnects
    /\ pc' = "settled"
    /\ UNCHANGED <<number, slot, onlyCommands, dismissBots, project, validation,
                   sessions, channels, bot, console, log, idx, last, nEvents,
                   error>>

\* line 285
ProcessExit ==
    /\ pc = "settled"
    /\ pc' = "exited"
    /\ UNCHANGED <<number, slot, onlyCommands, dismissBots, project, validation,
                   sessions, channels, bot, console, log, idx, last, nEvents,
                   resolveCalls, error>>

Next ==
    \/ FilterSessions
    \/ ValidateSessions
    \/ ComputeChannels
    \/ Connect
    \/ DryRunSession
    \/ DryRunReturn
    \/ Registered
    \/ \E c \in Channels, n \in Nicks : JoinEvent(c, n)
    \/ \E err \in Errors : ErrorEvent(err)
    \/ \E c \in Channels, n \in Nicks : PartEvent(c, n)
    \/ ConnectionEnd
    \/ ProcessExit

Spec == Init /\ [][Next]_vars

\* main runs to its return, and a connection asked to end does end; the
\* driver owes no event
FairSpec ==
    /\ Spec
    /\ WF_vars(FilterSessions)
    /\ WF_vars(ValidateSessions)
    /\ WF_vars(ComputeChannels)
    /\ WF_vars(Connect)
    /\ WF_vars(DryRunSession)
    /\ WF_vars(DryRunReturn)
    /\ WF_vars(Registered)
    /\ WF_vars(ConnectionEnd)
    /\ WF_vars(ProcessExit)

-----------------------------------------------------------------------------
(* Vocabulary of the properties *)

Live == ~onlyCommands /\ bot # Undefined

IsRepresentative(channel) == FindSession(channel) > 0

\* the channel a call on the client is about
CallChannel(call) ==
    IF call.op = "send"
    THEN (IF call.args[1] = "INVITE" THEN call.args[3] ELSE call.args[2])
    ELSE IF call.op = "disconnect" THEN ""
    ELSE call.args[1]

DismissMessages == {"RRSAgent, draft minutes", "RRSAgent, bye", "Zakim, bye"}

IsTopicOrInvite(call) == call.op = "send" /\ call.args[1] \in {"TOPIC", "INVITE"}

IsDismissSay(call) == call.op = "say" /\ call.args[2] \in DismissMessages

IsLoggingSay(call) == call.op = "say" /\ call.args[2] \notin DismissMessages

IsPart(call) == call.op = "part"

\* the calls made and the lines printed by the handling of the last event
LastCalls == SubSeq(log, last.at + 1, Len(log))

LastLines == SubSeq(console, last.conAt + 1, Len(console))

LastIsJoinOf(nick) == last.type = "join" /\ last.nick = nick

LastIsUserOnChannel == last.type = "error" /\ last.err.command = "err_useronchannel"

AllSessionsDone == \A k \in 1..Len(sessions) : sessions[k].done

DoneChannels ==
    {getChannel(sessions[k]) : k \in {j \in 1..Len(sessions) : sessions[j].done}}

CommandLines(prefix) == SelectSeq(console, LAMBDA l : StartsWith(l, prefix))

-----------------------------------------------------------------------------
(* Properties *)

\* C1: in a live run, on every channel of a representative session and for
\* every order of the events, no topic or invite command is issued after a
\* command of the logging-bot sequence, and no command of the logging-bot
\* sequence is issued after the driving bot parted the channel.
C1_ChannelCommandsOrdered ==
    Live =>
        \A i, j \in 1..Len(log) :
            (/\ i < j
             /\ CallChannel(log[i]) = CallChannel(log[j])
             /\ IsRepresentative(CallChannel(log[i])))
            => /\ ~(IsLoggingSay(log[i]) /\ IsTopicOrInvite(log[j]))
               /\ ~(IsPart(log[i]) /\ IsLoggingSay(log[j]))

\* C2: a session, once done, stays done, and a session becomes done only in
\* the step that handles a part event of the driving bot on its own channel.
C2_DoneOnlyByOwnPart ==
    [][/\ DoneChannels \subseteq DoneChannels'
       /\ \A c \in DoneChannels' \ DoneChannels :
            /\ nEvents' = nEvents + 1
            /\ last'.type = "part"
            /\ last'.nick = botName
            /\ last'.channel = c]_vars

C2_Witness ==
    /\ Live
    /\ Len(sessions) = 2
    /\ Cardinality(DoneChannels) = 1
    /\ last.type = "part" /\ last.nick = botName
    /\ nEvents = 3

\* C3 as stated: disconnect is called at most once in a run, and only when
\* every representative session is done.
C3_CompletionTriggeredOnce ==
    /\ Disconnects <= 1
    /\ Disconnects > 0 => AllSessionsDone

\* C3 as amended: disconnect is called only by the handling of a part event
\* of the driving bot on a representative channel that leaves every
\* representative session done, once per such event; the promise is resolved
\* only after that, and nothing of the run happens after it is resolved.
C3_DisconnectOnlyWhenAllDone ==
    [][/\ Disconnects' > Disconnects =>
            /\ Disconnects' = Disconnects + 1
            /\ last'.type = "part" /\ last'.nick = botName
            /\ IsRepresentative(last'.channel)
            /\ nEvents' = nEvents + 1
            /\ sessions' # <<>>
            /\ AllSessionsDone'
       /\ resolveCalls' > resolveCalls =>
            /\ Live /\ Disconnects > 0 /\ AllSessionsDone
            /\ resolveCalls = 0
       /\ resolveCalls > 0 => (log' = log /\ sessions' = sessions)]_vars

C3_Witness ==
    /\ Live
    /\ Len(sessions) = 2
    /\ Disconnects = 1
    /\ resolveCalls = 1
    /\ pc = "exited"

\* C4: in a live run, whenever every representative session is done, the
\* run eventually disconnects and signals completion (or is ended by a fatal
\* error of the driver).
C4_AllDoneLeadsToCompletion ==
    (Live /\ AllSessionsDone) ~> (pc \in {"settled", "exited", "failed"})

\* C5: with dismiss set no topic and no invite command is emitted, and with
\* dismiss not set none of the draft minutes and bye commands is emitted,
\* neither to the client nor on the console.
C5_DismissSeparatesCommands ==
    /\ dismissBots =>
        /\ \A i \in 1..Len(log) : ~IsTopicOrInvite(log[i])
        /\ CommandLines("/topic ") = <<>>
        /\ CommandLines("/invite ") = <<>>
    /\ ~dismissBots =>
        /\ \A i \in 1..Len(log) : ~IsDismissSay(log[i])
        /\ \A i \in 1..Len(console), c \in Channels, m \in DismissMessages :
              console[i] # "/msg " \o c \o " " \o m

C5_Witness ==
    /\ Live /\ dismissBots
    /\ LastIsJoinOf(botName)
    /\ Len(LastCalls) = 4
    /\ \A i \in 1..3 : IsDismissSay(LastCalls[i])

\* C6: with dismiss set, a join event or an already-on-channel error naming
\* RRSAgent makes no call on the client and prints nothing.
C6_DismissIgnoresLoggingBot ==
    (/\ dismissBots
     /\ \/ LastIsJoinOf("RRSAgent")
        \/ LastIsUserOnChannel /\ last.err.args[2] = "RRSAgent")
    => LastCalls = <<>> /\ LastLines = <<>>

\* C7 as stated: the join of the driving bot on a representative channel,
\* dismiss not set, sets the topic, invites RRSAgent, then invites Zakim.
C7_TopicThenLoggingThenTiming ==
    (/\ ~dismissBots /\ LastIsJoinOf(botName) /\ IsRepresentative(last.channel))
    => /\ Len(LastCalls) = 3
       /\ LastCalls[1].op = "send" /\ LastCalls[1].args[1] = "TOPIC"
       /\ LastCalls[1].args[2] = last.channel
       /\ LastCalls[2] = Call("send", <<"INVITE", "RRSAgent", last.channel>>)
       /\ LastCalls[3] = Call("send", <<"INVITE", "Zakim", last.channel>>)

\* C7 as amended: the join of the driving bot on a representative channel,
\* dismiss not set, issues exactly three commands: it sets the topic, invites
\* Zakim, then invites RRSAgent.
C7_TopicThenTimingThenLogging ==
    (/\ ~dismissBots /\ LastIsJoinOf(botName) /\ IsRepresentative(last.channel))
    => /\ Len(LastCalls) = 3
       /\ LastCalls[1].op = "send" /\ LastCalls[1].args[1] = "TOPIC"
       /\ LastCalls[1].args[2] = last.channel
       /\ LastCalls[2] = Call("send", <<"INVITE", "Zakim", last.channel>>)
       /\ LastCalls[3] = Call("send", <<"INVITE", "RRSAgent", last.channel>>)
       /\ Len(LastLines) = 3
       /\ StartsWith(LastLines[1], "/topic " \o last.channel \o " ")
       /\ LastLines[2] = "/invite Zakim " \o last.channel
       /\ LastLines[3] = "/invite RRSAgent " \o last.channel

C7_Witness ==
    /\ Live /\ ~dismissBots
    /\ LastIsJoinOf(botName) /\ IsRepresentative(last.channel)
    /\ Len(LastCalls) = 3

\* C8: while the run listens, the listener of the already-on-channel error
\* naming a nickname and a channel yields what the join listener yields for
\* them and throws nothing; and the step that handles such an error adds to
\* the console and to the calls on the client what the join listener adds in
\* the same state, and changes nothing else of the run.
C8_UserOnChannelIsJoin ==
    /\ []((Live /\ pc \in {"running", "disconnecting"}) =>
            \A n \in Nicks, c \in Channels :
                /\ ErrorListener(UserOnChannel(n, c)) = JoinListener(c, n)
                /\ ~ErrorListener(UserOnChannel(n, c)).thrown)
    /\ [][(/\ nEvents' = nEvents + 1
           /\ last'.type = "error"
           /\ last'.err.command = "err_useronchannel")
          => LET r == JoinListener(last'.err.args[3], last'.err.args[2])
             IN /\ log' = log \o Calls(r.out)
                /\ console' = console \o Lines(r.out)
                /\ sessions' = sessions
                /\ pc' = pc
                /\ error' = error
                /\ resolveCalls' = resolveCalls]_vars

C8_Witness ==
    /\ LastIsUserOnChannel
    /\ last.err.args[2] = "RRSAgent"
    /\ Len(LastCalls) > 3
    /\ pc = "running"

\* C9: the handling of an error other than already-on-channel makes no call
\* on the client, prints nothing, marks no session done and ends the run,
\* failed; nothing happens after that.
C9_OtherErrorIsFatal ==
    [][/\ pc # "failed"
       /\ (/\ nEvents' = nEvents + 1
           /\ last'.type = "error"
           /\ last'.err.command # "err_useronchannel")
          => /\ pc' = "failed"
             /\ error' = last'.err.command
             /\ log' = log
             /\ console' = console
             /\ sessions' = sessions
             /\ resolveCalls' = resolveCalls]_vars

C9_Witness ==
    /\ pc = "failed"
    /\ last.type = "error"
    /\ error = "err_chanoprivsneeded"
    /\ log # <<>>

\* C10: in a dry run no client is created and no call is made on one, no
\* event is handled, no session is done, and main has returned only once
\* the commands of every channel are printed.
C10_DryRunNeverTouchesDriver ==
    onlyCommands =>
        /\ bot = Undefined
        /\ log = <<>>
        /\ DoneChannels = {}
        /\ nEvents = 0 /\ last = NoEvent
        /\ resolveCalls = 0
        /\ pc \notin {"connecting", "running", "disconnecting"}
        /\ pc \in {"settled", "exited"} =>
              Len(CommandLines("/join ")) = Len(sessions)

C10_Witness ==
    /\ onlyCommands
    /\ pc = "exited"
    /\ Len(sessions) = 2
    /\ Len(CommandLines("/join ")) = 2

\* the command lines a dry run owes to one representative session
DryRunTrace(session) ==
    LET c == getChannel(session)
    IN <<"/join " \o c>>
       \o Lines(sendChannelBotCommands(c, botName))
       \o (IF ~dismissBots THEN Lines(sendChannelBotCommands(c, "RRSAgent"))
           ELSE <<>>)

RECURSIVE DryRunTraceUpTo(_)
DryRunTraceUpTo(k) ==
    IF k = 0 THEN <<>> ELSE DryRunTraceUpTo(k - 1) \o DryRunTrace(sessions[k])

\* C11: in a dry run the command lines printed so far are, session after
\* session, the join command, the driving-bot sequence of the dismiss flag
\* and, only without dismiss, the logging-bot sequence; with dismiss a
\* session's commands are the join and the three draft minutes and bye
\* commands; without dismiss they are the join, the topic, two invitations and
\* the logging-bot sequence from "do not leave" to the last agenda item.
C11_DryRunTrace ==
    (onlyCommands /\ pc \in {"dryrun", "settled", "exited"}) =>
        /\ CommandLines("/") = DryRunTraceUpTo(idx - 1)
        /\ \A k \in 1..Len(sessions) :
            LET c == getChannel(sessions[k])
                t == DryRunTrace(sessions[k])
            IN IF dismissBots
               THEN t = << "/join " \o c,
                           "/msg " \o c \o " RRSAgent, draft minutes",
                           "/msg " \o c \o " RRSAgent, bye",
                           "/msg " \o c \o " Zakim, bye" >>
               ELSE /\ Len(t) \in {15, 16}
                    /\ t[1] = "/join " \o c
                    /\ StartsWith(t[2], "/topic " \o c \o " ")
                    /\ StartsWith(t[3], "/invite ")
                    /\ StartsWith(t[4], "/invite ")
                    /\ t[5] = "/msg " \o c \o " RRSAgent, do not leave"
                    /\ \A j \in 5..Len(t) : StartsWith(t[j], "/msg " \o c \o " ")
                    /\ t[Len(t)] = "/msg " \o c
                           \o " agenda+ Next steps / where discussion continues"

C11_Witness ==
    /\ onlyCommands /\ dismissBots
    /\ pc = "exited"
    /\ Len(sessions) = 2
    /\ Len(CommandLines("/")) = 8

-----------------------------------------------------------------------------
(* Runs over projects whose sessions share channels in every order of slots *)

\* the slot names a session may carry; the first is not a slot of the project
SlotNames == {"8:00 - 9:00", "9:30 - 10:30", "11:00 - 12:00"}

SharedSessions(slot1, slot2, slot3, shortname3) ==
    << Session(2, "Two", slot2, "R1", "#alpha", "public", Undefined, Undefined),
       Session(1, "One", slot1, "R1", "#alpha", "public", Undefined, Undefined),
       Session(3, "Three", slot3, "R1", shortname3, "public",
               Undefined, Undefined) >>

SharedProjects ==
    {[sessions |-> SharedSessions(s1, s2, s3, c3), slots |-> Slots,
      rooms |-> Rooms] :
        s1 \in SlotNames, s2 \in SlotNames, s3 \in SlotNames,
        c3 \in {"#alpha", "#beta"}}

\* live runs are made on the projects whose third session is alone on #beta
\* in the first slot of the project; dry runs on all of them
InitShared ==
    /\ pc = "start"
    /\ number = <<>>
    /\ slot = Undefined
    /\ project \in SharedProjects
    /\ onlyCommands \in BOOLEAN
    /\ ~onlyCommands =>
          /\ getChannel(project.sessions[3]) = "#beta"
          /\ project.sessions[3].slot = Slots[1].name
    /\ dismissBots = FALSE
    /\ validation = NoErrors
    /\ sessions = <<>>
    /\ channels = <<>>
    /\ bot = Undefined
    /\ console = <<>>
    /\ log = <<>>
    /\ idx = 0
    /\ last = NoEvent
    /\ nEvents = 0
    /\ resolveCalls = 0
    /\ error = ""

SpecShared == InitShared /\ [][Next]_vars

\* the index of a session's slot among the slots of the project, -1 if none
SlotRank(session) ==
    IF \E k \in 1..Len(project.slots) : project.slots[k].name = session.slot
    THEN (CHOOSE k \in 1..Len(project.slots) :
              project.slots[k].name = session.slot) - 1
    ELSE -1

Grouped == pc \notin {"start", "filtered", "validated"} /\ channels # <<>>

\* the lines and messages that name the session they were made from
NamesSession(text, channel, session) ==
    \/ StartsWith(text, "/topic " \o channel \o " TPAC breakout: "
                        \o session.title \o " ")
    \/ StartsWith(text, "TPAC breakout: " \o session.title \o " ")
    \/ text = "/msg " \o channel \o " Meeting: " \o session.title
    \/ text = "Meeting: " \o session.title
    \/ text = "/msg " \o channel \o " Agenda: https://github.com/"
              \o session.repository \o "/issues/" \o ToString(session.number)
    \/ text = "Agenda: https://github.com/" \o session.repository
              \o "/issues/" \o ToString(session.number)

IsNaming(text) ==
    \/ StartsWith(text, "/topic ")
    \/ StartsWith(text, "TPAC breakout: ")
    \/ \E c \in Channels : StartsWith(text, "/msg " \o c \o " Meeting: ")
    \/ StartsWith(text, "Meeting: ")
    \/ \E c \in Channels : StartsWith(text, "/msg " \o c \o " Agenda: ")
    \/ StartsWith(text, "Agenda: ")

\* C12: the sessions that share a channel are listed by ascending index of
\* their slot in the project's slots, a slot that is not found counting as -1;
\* the representative session of the channel is the first of that list; the
\* channel is joined once, and every topic, meeting title and agenda link
\* printed or sent is the one of the representative session of its channel.
C12_FirstOfGroupRepresents ==
    Grouped =>
        /\ Len(sessions) = Len(channels)
        /\ \A g \in 1..Len(channels) :
            LET group == channels[g].sessions
                name == channels[g].name
            IN /\ \A i, j \in 1..Len(group) :
                     i < j => SlotRank(group[i]) <= SlotRank(group[j])
               /\ {group[i].number : i \in 1..Len(group)}
                     = {project.sessions[k].number :
                           k \in {j \in 1..Len(project.sessions) :
                                   getChannel(project.sessions[j]) = name}}
               /\ sessions[g].number = group[1].number
               /\ \A h \in 1..Len(channels) : h # g => channels[h].name # name
        /\ \A k \in 1..Len(console) :
              IsNaming(console[k]) =>
                  \E g \in 1..Len(channels) :
                      NamesSession(console[k], channels[g].name,
                                   channels[g].sessions[1])
        /\ \A k \in 1..Len(log) :
              /\ log[k].op = "join" =>
                    /\ \E g \in 1..Len(channels) :
                          log[k].args[1] = channels[g].name
                    /\ \A j \in 1..Len(log) :
                          (log[j].op = "join" /\ log[j].args = log[k].args)
                              => j = k
              /\ log[k].op = "send" /\ log[k].args[1] = "TOPIC" =>
                    \E g \in 1..Len(channels) :
                        /\ log[k].args[2] = channels[g].name
                        /\ NamesSession(log[k].args[3], channels[g].name,
                                        channels[g].sessions[1])
              /\ log[k].op = "say" /\ IsNaming(log[k].args[2]) =>
                    \E g \in 1..Len(channels) :
                        /\ log[k].args[1] = channels[g].name
                        /\ NamesSession(log[k].args[2], channels[g].name,
                                        channels[g].sessions[1])

\* a finished dry run in which session 2, whose slot is not a slot of the
\* project, represents #alpha before sessions 1 and 3 of the first slot
C12_Witness ==
    /\ onlyCommands /\ pc = "exited"
    /\ Len(channels) = 1
    /\ Len(channels[1].sessions) = 3
    /\ SlotRank(channels[1].sessions[1]) = -1
    /\ SlotRank(channels[1].sessions[2]) = 0
    /\ sessions[1].number = 2
    /\ \E k \in 1..Len(console) : console[k] = "/msg #alpha Meeting: Two"

-----------------------------------------------------------------------------

\* the sessions of the project that the slot filter and the number filter keep
Targeted ==
    {k \in 1..Len(project.sessions) :
        /\ project.sessions[k].slot \notin {Undefined, ""}
        /\ (NoNumber(number) \/ project.sessions[k].number = number[1])
        /\ (slot \in {Undefined, ""}
            \/ StartsWith(project.sessions[k].slot, slot))}

InError(n) ==
    \E k \in 1..Len(validation[n]) : validation[n][k].severity = "error"

NothingComputedOrJoined ==
    /\ channels = <<>>
    /\ bot = Undefined
    /\ log = <<>>
    /\ CommandLines("/") = <<>>

\* C13: a run for one session number whose session has a validation error of
\* severity 'error' never gets past the validation: it fails with an error
\* that names the session number ("contains errors that need fixing" when the
\* filters keep the session) and no channel is computed or joined; a run for
\* all sessions goes on without failing there, with exactly the targeted
\* sessions that have no such error.
C13_ErrorsFatalForOneSession ==
    /\ (~NoNumber(number) /\ number[1] \in SessionNumbers /\ InError(number[1]))
        => /\ pc \in {"start", "filtered", "failed"}
           /\ NothingComputedOrJoined
           /\ pc = "failed" =>
                /\ StartsWith(error, "Session " \o ToString(number[1]) \o " ")
                /\ Targeted # {} =>
                      error = "Session " \o ToString(number[1])
                                \o " contains errors that need fixing"
    /\ NoNumber(number)
        => /\ pc = "failed" => last.type = "error"
           /\ pc = "validated" =>
                {sessions[k].number : k \in 1..Len(sessions)}
                    = {project.sessions[k].number :
                          k \in {j \in Targeted :
                                   ~InError(project.sessions[j].number)}}
           /\ pc \notin {"start", "filtered", "validated"} =>
                UNION {{channels[g].sessions[i].number :
                           i \in 1..Len(channels[g].sessions)} :
                       g \in 1..Len(channels)}
                    = {project.sessions[k].number :
                          k \in {j \in Targeted :
                                   ~InError(project.sessions[j].number)}}

C13_Witness ==
    /\ number = <<2>>
    /\ InError(2)
    /\ Targeted # {}
    /\ pc = "failed"
    /\ error = "Session 2 contains errors that need fixing"

-----------------------------------------------------------------------------

Unassigned(session) == session.slot \in {Undefined, ""}

UnassignedChannels ==
    {getChannel(project.sessions[k]) :
        k \in {j \in 1..Len(project.sessions) :
                 Unassigned(project.sessions[j])}}

\* C14: whatever the slot filter and the number filter, a session without a
\* slot is never among the sessions of the run, in no list of a channel and
\* never representative, and no command is printed or sent for its channel
\* (here no session with a slot shares the channel of one without).
C14_UnassignedNeverInRun ==
    /\ \A k \in 1..Len(sessions) : ~Unassigned(sessions[k])
    /\ \A g \in 1..Len(channels) :
          /\ channels[g].name \notin UnassignedChannels
          /\ \A i \in 1..Len(channels[g].sessions) :
                ~Unassigned(channels[g].sessions[i])
    /\ \A k \in 1..Len(log) : CallChannel(log[k]) \notin UnassignedChannels
    /\ \A k \in 1..Len(console) :
          \A c \in UnassignedChannels :
              /\ console[k] # "/join " \o c
              /\ ~StartsWith(console[k], "/topic " \o c \o " ")
              /\ ~StartsWith(console[k], "/msg " \o c \o " ")
              /\ console[k] # "/invite Zakim " \o c
              /\ console[k] # "/invite RRSAgent " \o c

\* the run asked for session 4, which has no slot, and failed on it
C14_Witness ==
    /\ number = <<4>>
    /\ \E k \in 1..Len(project.sessions) :
          /\ project.sessions[k].number = 4
          /\ Unassigned(project.sessions[k])
    /\ pc = "failed"
    /\ sessions = <<>>

-----------------------------------------------------------------------------

\* the console entry that echoes a call on the client
Echo(call) ==
    IF call.op = "join" THEN "/join " \o call.args[1]
    ELSE IF call.op = "say" THEN "/msg " \o call.args[1] \o " " \o call.args[2]
    ELSE IF call.op = "part" THEN "/part " \o call.args[1]
    ELSE IF call.op = "send" /\ call.args[1] = "TOPIC"
    THEN "/topic " \o call.args[2] \o " " \o call.args[3]
    ELSE IF call.op = "send" /\ call.args[1] = "INVITE"
    THEN "/invite " \o call.args[2] \o " " \o call.args[3]
    ELSE ""

\* the IRC commands issued to the client, in order
IrcCommands == SelectSeq(log, LAMBDA call : call.op # "disconnect")

\* C15: in a live run the command entries of the console are, one for one and
\* in the same order, the echoes of the join, topic, invite, say and part
\* commands issued to the client.
C15_EveryCommandEchoed ==
    Live =>
        CommandLines("/") = [k \in 1..Len(IrcCommands) |-> Echo(IrcCommands[k])]

-----------------------------------------------------------------------------

\* the channel on which the last event started the logging-bot sequence
LastLoggingChannel ==
    IF LastIsJoinOf("RRSAgent") /\ IsRepresentative(last.channel)
    THEN last.channel
    ELSE IF /\ LastIsUserOnChannel
            /\ last.err.args[2] = "RRSAgent"
            /\ IsRepresentative(last.err.args[3])
    THEN last.err.args[3]
    ELSE ""

\* the messages of a logging-bot sequence: those said by the last event of a
\* live run, those printed for session k by a finished dry run
LastMessages == [k \in 1..Len(LastCalls) |->
                    IF LastCalls[k].op = "say" THEN LastCalls[k].args[2] ELSE ""]

PrintedMessages(k) ==
    LET head == "/msg " \o getChannel(sessions[k]) \o " "
        printed == CommandLines(head)
    IN [j \in 1..Len(printed) |->
           SubSeq(printed[j], Len(head) + 1, Len(printed[j]))]

DryRunDone == onlyCommands /\ ~dismissBots /\ pc \in {"settled", "exited"}

Present(value) == value \notin {Undefined, ""} /\ value \notin todoStrings

ExpectedAgenda(session) ==
    IF Present(session.description.materials.agenda)
    THEN "Agenda: " \o session.description.materials.agenda
    ELSE "Agenda: https://github.com/" \o session.repository
         \o "/issues/" \o ToString(session.number)

OneAgenda(messages, session) ==
    LET agendas == SelectSeq(messages, LAMBDA m : StartsWith(m, "Agenda: "))
    IN agendas = <<ExpectedAgenda(session)>>

\* C16: every logging-bot sequence, sent in a live run or printed in a dry
\* run, has exactly one agenda announcement: 'Agenda: ' followed by the
\* session's agenda, verbatim, when there is one that is not a placeholder,
\* and by https://github.com/<repository>/issues/<number> otherwise.
C16_OneAgendaAnnouncement ==
    /\ (Live /\ LastLoggingChannel # "") =>
          OneAgenda(LastMessages, sessions[FindSession(LastLoggingChannel)])
    /\ DryRunDone =>
          \A k \in 1..Len(sessions) : OneAgenda(PrintedMessages(k), sessions[k])

\* the logging bot joined the channel of a session whose agenda is a
\* placeholder, and the link to the session's issue was announced
C16_Witness ==
    /\ Live
    /\ LastLoggingChannel = "#alpha"
    /\ sessions[FindSession("#alpha")].description.materials.agenda = "@@"
    /\ \E k \in 1..Len(LastMessages) :
          LastMessages[k] = "Agenda: https://github.com/w3c/breakouts/issues/1"

-----------------------------------------------------------------------------

SlidesetRightlyPlaced(messages, session) ==
    LET slides == session.description.materials.slides
        at == {j \in 1..Len(messages) : StartsWith(messages[j], "Slideset: ")}
    IN /\ at # {} <=> Present(slides)
       /\ \A j \in at :
             /\ messages[j] = "Slideset: " \o slides
             /\ at = {j}
             /\ \E i \in 1..(j - 1) : StartsWith(messages[i], "Agenda: ")
             /\ \A i \in (j + 1)..Len(messages) :
                   ~StartsWith(messages[i], "Agenda: ")
             /\ \E k \in (j + 1)..Len(messages) : messages[k] = "clear agenda"
             /\ \A k \in 1..(j - 1) : messages[k] # "clear agenda"

\* C17: a logging-bot sequence, sent in a live run or printed in a dry run,
\* has a 'Slideset: ' announcement exactly when the session has slides that
\* are not a placeholder; the announcement then gives these slides, after the
\* agenda announcement and before 'clear agenda'.
C17_SlidesetOnlyWhenPresent ==
    /\ (Live /\ LastLoggingChannel # "") =>
          SlidesetRightlyPlaced(LastMessages,
                                sessions[FindSession(LastLoggingChannel)])
    /\ DryRunDone =>
          \A k \in 1..Len(sessions) :
              SlidesetRightlyPlaced(PrintedMessages(k), sessions[k])

\* a finished dry run that printed the slides of session 3 and none for
\* session 2, whose slides are a placeholder
C17_Witness ==
    /\ DryRunDone
    /\ Len(sessions) = 2
    /\ sessions[1].description.materials.slides = "TBD"
    /\ \A j \in 1..Len(PrintedMessages(1)) :
          ~StartsWith(PrintedMessages(1)[j], "Slideset: ")
    /\ \E j \in 1..Len(PrintedMessages(2)) :
          PrintedMessages(2)[j] = "Slideset: https://example.org/slides"

-----------------------------------------------------------------------------

\* the events the claim says are ignored: those of a channel that is not the
\* channel of a representative session, the joins and already-on-channel
\* errors of a nick other than the driving bot and RRSAgent, and the parts of
\* a nick other than the driving bot
Ignored(event) ==
    \/ /\ event.type = "join"
       /\ \/ ~IsRepresentative(event.channel)
          \/ event.nick \notin {botName, "RRSAgent"}
    \/ /\ event.type = "error"
       /\ event.err.command = "err_useronchannel"
       /\ \/ ~IsRepresentative(event.err.args[3])
          \/ event.err.args[2] \notin {botName, "RRSAgent"}
    \/ /\ event.type = "part"
       /\ \/ ~IsRepresentative(event.channel)
          \/ event.nick # botName

\* C18: in a live run, the handling of an ignored event changes nothing of
\* the run (no session becomes done, nothing is printed, no command is sent,
\* no completion, no failure).
C18_IgnoredEventsChangeNothing ==
    [][(Live /\ nEvents' = nEvents + 1 /\ Ignored(last')) =>
          UNCHANGED <<pc, number, slot, onlyCommands, dismissBots, project,
                      validation, sessions, channels, bot, console, log, idx,
                      resolveCalls, error>>]_vars

\* the timing bot joined the channel of a representative session after
\* commands were sent there, and nothing followed
C18_Witness ==
    /\ Live
    /\ last.type = "join" /\ last.nick = "Zakim"
    /\ IsRepresentative(last.channel)
    /\ \E k \in 1..Len(log) :
          IsTopicOrInvite(log[k]) /\ CallChannel(log[k]) = last.channel
    /\ LastCalls = <<>>
    /\ LastLines = <<>>

-----------------------------------------------------------------------------

\* the channel and the nick of a join or already-on-channel event
PresenceChannel(event) ==
    IF event.type = "join" THEN event.channel
    ELSE IF event.type = "error" /\ event.err.command = "err_useronchannel"
    THEN event.err.args[3]
    ELSE ""

\* C19: in a live run, a join or already-on-channel event delivered for the
\* channel of a representative session that is done issues no command.
C19_NoCommandOnceDone ==
    (Live /\ PresenceChannel(last) \in DoneChannels) => LastCalls = <<>>

-----------------------------------------------------------------------------
(* Runs with a driver that delivers what it owes and nothing else: the      *)
(* registered event, the join of the driving bot on a channel it was asked  *)
(* to join, the presence of RRSAgent (join or already-on-channel error) on  *)
(* a channel it was invited to, the part of the driving bot from a channel  *)
(* it was asked to part, each once                                          *)

Sent(call) == \E k \in 1..Len(log) : log[k] = call

Connected == pc \in {"running", "disconnecting"}

OwedJoin(channel) ==
    /\ Connected
    /\ Sent(Call("join", <<channel>>))
    /\ \A k \in 1..Len(log) :
          CallChannel(log[k]) = channel => log[k].op = "join"
    /\ OnJoin(channel, botName)

OwedPresence(channel) ==
    /\ Connected
    /\ Sent(Call("send", <<"INVITE", "RRSAgent", channel>>))
    /\ ~Sent(Call("say", <<channel, "RRSAgent, do not leave">>))
    /\ \/ OnJoin(channel, "RRSAgent")
       \/ OnError(UserOnChannel("RRSAgent", channel))

OwedPart(channel) ==
    /\ Connected
    /\ Sent(Call("part", <<channel>>))
    /\ channel \notin DoneChannels
    /\ OnPart(channel, botName)

NextOwed ==
    \/ FilterSessions
    \/ ValidateSessions
    \/ ComputeChannels
    \/ Connect
    \/ DryRunSession
    \/ DryRunReturn
    \/ Registered
    \/ \E c \in Channels : OwedJoin(c)
    \/ \E c \in Channels : OwedPresence(c)
    \/ \E c \in Channels : OwedPart(c)
    \/ ConnectionEnd
    \/ ProcessExit

\* every step of main and every owed event eventually happens
SpecOwed ==
    /\ Init /\ [][NextOwed]_vars
    /\ WF_vars(FilterSessions)
    /\ WF_vars(ValidateSessions)
    /\ WF_vars(ComputeChannels)
    /\ WF_vars(Connect)
    /\ WF_vars(DryRunSession)
    /\ WF_vars(DryRunReturn)
    /\ WF_vars(Registered)
    /\ \A c \in Channels : WF_vars(OwedJoin(c))
    /\ \A c \in Channels : WF_vars(OwedPresence(c))
    /\ \A c \in Channels : WF_vars(OwedPart(c))
    /\ WF_vars(ConnectionEnd)
    /\ WF_vars(ProcessExit)

\* C20: every live run eventually disconnects and resolves its completion
\* signal when the driver delivers the registered event and, on each joined
\* channel, the join of the driving bot, the presence of the logging bot and
\* the part of the driving bot; so does a live run without any
\* representative session.
C20_LiveRunTerminates ==
    Live ~> (Disconnects > 0 /\ resolveCalls > 0)

====
